---- MODULE Spec2Model ----
(***************************************************************************)
(* Model of the Focus Force to-do screen (src/FF/FocusForce/App.tsx).      *)
(* The component state is the five useState cells; every handler that the  *)
(* rendered tree wires to a gesture is one action.  The displayed list is  *)
(* recomputed on each render from the state (sort a copy, then filter).    *)
(* The copies hold references to the item objects of toDoList; a reference *)
(* is modelled as the 1-based position of the object in toDoList.  Row     *)
(* indices handed to the handlers are the 0-based indices of               *)
(* filteredToDoList.map, as in the source.                                 *)
(***************************************************************************)
EXTENDS Integers, Sequences, FiniteSets, TLC

VARIABLES toDoList, inputValue, editIndex, showCompleted, sortBy, threw, last

vars == <<toDoList, inputValue, editIndex, showCompleted, sortBy, threw, last>>

\* Largest number of items the model lets the list hold.
MaxLen == 3

\* useState(null) for editIndex: the value that is no row index.
null == -1

\* Strings the user can type: empty, whitespace-only and a name.
Texts == {"", " ", "Apple"}

\* Collation rank of each string of Texts.
Rank == [t \in Texts |->
           IF t = "" THEN 0 ELSE IF t = " " THEN 1 ELSE 2]

\* a.localeCompare(b): negative, zero or positive.
localeCompare(a, b) == IF Rank[a] < Rank[b] THEN -1 ELSE IF Rank[a] > Rank[b] THEN 1 ELSE 0

ToDo == [text : Texts, completed : BOOLEAN]

\* The object literal created by handleAddToDo.
NewToDo(text) == [text |-> text, completed |-> FALSE]

Positions(list) == [k \in 1..Len(list) |-> k]

\* One step of the stable sort: put reference p behind every reference that
\* does not compare greater than it.
RECURSIVE InsertSorted(_, _, _)
InsertSorted(list, sorted, p) ==
  IF sorted = <<>> THEN <<p>>
  ELSE IF localeCompare(list[Head(sorted)].text, list[p].text) <= 0
       THEN <<Head(sorted)>> \o InsertSorted(list, Tail(sorted), p)
       ELSE <<p>> \o sorted

\* Array.prototype.sort with the text comparator (stable), on the first n
\* references.
RECURSIVE SortByText(_, _)
SortByText(list, n) ==
  IF n = 0 THEN <<>> ELSE InsertSorted(list, SortByText(list, n - 1), n)

\* const sortedToDoList = [...toDoList]; sorted when sortBy === "name".
sortedToDoList ==
  IF sortBy = "name" THEN SortByText(toDoList, Len(toDoList)) ELSE Positions(toDoList)

KeepToDo_hidesAlways(toDo) == ~toDo.completed

\* The filter callback: (toDo) => showCompleted || !toDo.completed
KeepToDo(toDo) == showCompleted \/ ~toDo.completed

\* sortedToDoList.filter(...)
filteredToDoList == SelectSeq(sortedToDoList, LAMBDA p : KeepToDo(toDoList[p]))

RowIndicesOneBased == 1..Len(filteredToDoList)

\* The index argument of filteredToDoList.map((toDo, index) => ...).
RowIndices == 0..(Len(filteredToDoList) - 1)

\* Rows rendered in the edit branch / in the ordinary branch.
EditRows == {index \in RowIndices : editIndex = index}
ItemRows == {index \in RowIndices : editIndex # index}

\* The item object rendered in row index.
ShownPos(index) == filteredToDoList[index + 1]

spliceToEnd(list, index, count) == SubSeq(list, 1, index)

\* Array.prototype.splice(index, count) on a copy, for index >= 0.
splice(list, index, count) ==
  SubSeq(list, 1, index) \o SubSeq(list, index + count + 1, Len(list))

Op(name, index) == [op |-> name, index |-> index]

Init ==
  /\ toDoList = <<>>
  /\ inputValue = ""
  /\ editIndex = null
  /\ showCompleted = TRUE
  /\ sortBy = "null"
  /\ threw = FALSE
  /\ last = Op("init", null)

\* onChangeText={(text) => setInputValue(text)}
setInputValue(text) ==
  /\ inputValue' = text
  /\ last' = Op("setInputValue", null)
  /\ UNCHANGED <<toDoList, editIndex, showCompleted, sortBy, threw>>

handleAddToDo_trims ==
  /\ inputValue = "" \/ Len(toDoList) < MaxLen
  /\ IF inputValue # "" /\ inputValue # " "
     THEN /\ toDoList' = Append(toDoList, NewToDo(inputValue))
          /\ inputValue' = ""
     ELSE UNCHANGED <<toDoList, inputValue>>
  /\ last' = Op("add", null)
  /\ UNCHANGED <<editIndex, showCompleted, sortBy, threw>>

handleAddToDo ==
  /\ inputValue = "" \/ Len(toDoList) < MaxLen
  /\ IF inputValue # ""
     THEN /\ toDoList' = Append(toDoList, NewToDo(inputValue))
          /\ inputValue' = ""
     ELSE UNCHANGED <<toDoList, inputValue>>
  /\ last' = Op("add", null)
  /\ UNCHANGED <<editIndex, showCompleted, sortBy, threw>>

\* updatedToDoList[index] is undefined past the end: the property access
\* throws before any setter runs.
handleToggleCompleted(index) ==
  /\ IF index < Len(toDoList)
     THEN /\ toDoList' = [toDoList EXCEPT ![index + 1].completed = ~@]
          /\ UNCHANGED threw
     ELSE /\ threw' = TRUE
          /\ UNCHANGED toDoList
  /\ last' = Op("toggle", index)
  /\ UNCHANGED <<inputValue, editIndex, showCompleted, sortBy>>

handleDeleteToDo(index) ==
  /\ toDoList' = splice(toDoList, index, 1)
  /\ last' = Op("delete", index)
  /\ UNCHANGED <<inputValue, editIndex, showCompleted, sortBy, threw>>

handleEditToDo_keepsEditing(index, newText) ==
  /\ IF index < Len(toDoList)
     THEN /\ toDoList' = [toDoList EXCEPT ![index + 1].text = newText]
          /\ UNCHANGED <<editIndex, threw>>
     ELSE /\ threw' = TRUE
          /\ UNCHANGED <<toDoList, editIndex>>
  /\ last' = Op("edit", index)
  /\ UNCHANGED <<inputValue, showCompleted, sortBy>>

handleEditToDo(index, newText) ==
  /\ IF index < Len(toDoList)
     THEN /\ toDoList' = [toDoList EXCEPT ![index + 1].text = newText]
          /\ editIndex' = null
          /\ UNCHANGED threw
     ELSE /\ threw' = TRUE
          /\ UNCHANGED <<toDoList, editIndex>>
  /\ last' = Op("edit", index)
  /\ UNCHANGED <<inputValue, showCompleted, sortBy>>

\* onLongPress={() => setEditIndex(index)} / onPress={() => setEditIndex(null)}
setEditIndex(index) ==
  /\ editIndex' = index
  /\ last' = Op("setEditIndex", index)
  /\ UNCHANGED <<toDoList, inputValue, showCompleted, sortBy, threw>>

handleToggleShowCompleted ==
  /\ showCompleted' = ~showCompleted
  /\ last' = Op("toggleShowCompleted", null)
  /\ UNCHANGED <<toDoList, inputValue, editIndex, sortBy, threw>>

handleSortByName_inPlace ==
  /\ sortBy' = "name"
  /\ toDoList' = [k \in 1..Len(toDoList) |->
                    toDoList[SortByText(toDoList, Len(toDoList))[k]]]
  /\ last' = Op("sortByName", null)
  /\ UNCHANGED <<inputValue, editIndex, showCompleted, threw>>

handleSortByName ==
  /\ sortBy' = "name"
  /\ last' = Op("sortByName", null)
  /\ UNCHANGED <<toDoList, inputValue, editIndex, showCompleted, threw>>

\* The gestures the rendered tree offers.
ChangeInput == \E text \in Texts : setInputValue(text)
PressAdd == handleAddToDo
PressCheckBox == \E index \in ItemRows : handleToggleCompleted(index)
PressDelete == \E index \in ItemRows : handleDeleteToDo(index)
LongPressText == \E index \in ItemRows : setEditIndex(index)
ChangeEditText == \E index \in EditRows : \E text \in Texts : handleEditToDo(index, text)
PressUpdate == EditRows # {} /\ setEditIndex(null)
PressFilter == handleToggleShowCompleted
PressSort == handleSortByName

Next ==
  \/ ChangeInput
  \/ PressAdd
  \/ PressCheckBox
  \/ PressDelete
  \/ LongPressText
  \/ ChangeEditText
  \/ PressUpdate
  \/ PressFilter
  \/ PressSort

Spec == Init /\ [][Next]_vars

TypeOK ==
  /\ toDoList \in Seq(ToDo) /\ Len(toDoList) <= MaxLen
  /\ inputValue \in Texts
  /\ editIndex \in {null} \cup (0..(MaxLen - 1))
  /\ showCompleted \in BOOLEAN
  /\ sortBy \in {"null", "name"}
  /\ threw \in BOOLEAN

Shown(index) == toDoList[ShownPos(index)]

\* A step of the handler named name.
Did(name) == last'.op = name

\* list with the item at position k removed.
Without(list, k) == SubSeq(list, 1, k - 1) \o SubSeq(list, k + 1, Len(list))

\* C1: toggleCompleted(i), for every sort mode and showCompleted value, flips
\* the completed flag of the item shown in row i and of no other item.
C1_ToggleFlipsShownItem ==
  [][Did("toggle") =>
       toDoList' = [toDoList EXCEPT ![ShownPos(last'.index)].completed = ~@]]_vars

\* C2: with sortBy = "name", editText(i, newText) replaces the text of the
\* item shown in row i, not the text of the item stored at position i when
\* the two differ.
C2_EditReplacesShownItemText ==
  [][(Did("edit") /\ sortBy = "name") =>
       \E newText \in Texts :
         toDoList' = [toDoList EXCEPT ![ShownPos(last'.index)].text = newText]]_vars

\* C3: delete(i), for every sort mode and showCompleted value, removes from
\* toDoList the item shown in row i.
C3_DeleteRemovesShownItem ==
  [][Did("delete") => toDoList' = Without(toDoList, ShownPos(last'.index))]_vars

\* C4: every delete(i) a row can issue shortens toDoList by exactly 1 and
\* leaves the previous sequence with a single element removed, the others
\* keeping text, completed flag and relative order.
C4_DeleteRemovesExactlyOne ==
  [][Did("delete") =>
       /\ Len(toDoList') = Len(toDoList) - 1
       /\ \E k \in 1..Len(toDoList) : toDoList' = Without(toDoList, k)]_vars

C4_Witness ==
  /\ last.op = "delete"
  /\ Len(toDoList) = 2
  /\ toDoList[1] # toDoList[2]

\* C5: add takes effect exactly when inputValue is not the empty string: a
\* non-empty inputValue (whitespace-only included) is appended as
\* {text, completed: false}, nothing else in the list moves or changes, the
\* count grows by 1 and inputValue becomes ""; with "" the list and all view
\* settings stay as they are.
C5_AddAppendsIffNonEmpty ==
  [][Did("add") =>
       IF inputValue # ""
       THEN /\ toDoList' = Append(toDoList, [text |-> inputValue, completed |-> FALSE])
            /\ Len(toDoList') = Len(toDoList) + 1
            /\ inputValue' = ""
       ELSE UNCHANGED <<toDoList, inputValue, editIndex, showCompleted, sortBy>>]_vars

C5_Witness ==
  /\ last.op = "add"
  /\ Len(toDoList) = 2
  /\ toDoList[2] = [text |-> " ", completed |-> FALSE]
  /\ inputValue = ""

\* C6: with showCompleted false the displayed list holds no completed item
\* and every item that is not completed; with showCompleted true it is as
\* long as toDoList.
C6_FilterShowsRightItems ==
  /\ ~showCompleted =>
       /\ \A index \in RowIndices : ~Shown(index).completed
       /\ \A k \in 1..Len(toDoList) :
            ~toDoList[k].completed => \E index \in RowIndices : ShownPos(index) = k
  /\ showCompleted => Len(filteredToDoList) = Len(toDoList)

C6_Witness ==
  /\ ~showCompleted
  /\ Len(toDoList) = 3
  /\ Len(filteredToDoList) = 1
  /\ sortBy = "name"

\* The rows are in ascending order of text.
ShownAscending ==
  LET shown == filteredToDoList
  IN  \A i \in 1..(Len(shown) - 1) :
        localeCompare(toDoList[shown[i]].text, toDoList[shown[i + 1]].text) <= 0

\* C7: setSortMode(byName) and toggleShowCompleted leave toDoList unchanged,
\* and with sortBy = "name" the displayed list is in ascending order of text.
C7_ViewNeverMutatesStorage ==
  /\ [][(Did("sortByName") \/ Did("toggleShowCompleted")) => toDoList' = toDoList]_vars
  /\ [](sortBy = "name" => ShownAscending)

C7_Witness ==
  /\ last.op = "sortByName"
  /\ Len(toDoList) = 2
  /\ toDoList[1].text = "Apple" /\ toDoList[2].text = " "
  /\ Shown(0).text = " " /\ Shown(1).text = "Apple"

\* C8: whenever editIndex is not null, exactly one row of the displayed list
\* is in edit mode.
C8_ExactlyOneRowInEditMode ==
  editIndex # null => Cardinality(EditRows) = 1

C10_RowIndexInStorage ==
  /\ \A index \in RowIndices : 0 <= index /\ index < Len(toDoList)
  /\ Len(filteredToDoList) <= Len(toDoList)
  /\ ~threw

C10_Witness ==
  /\ last.op \in {"toggle", "delete", "edit"}
  /\ last.index = MaxLen - 1
  /\ ~showCompleted
====
